---- MODULE Spec2Model ----
(***************************************************************************)
(* Transcript ingestion, buffering and embedding pipeline of server.js.    *)
(*                                                                         *)
(* Strings are sequences of one-character strings, so that trim, join and  *)
(* length are computed as the JavaScript code computes them.  Timestamps   *)
(* are milliseconds; ISO strings compare in the same order.                *)
(***************************************************************************)
EXTENDS Integers, Sequences, FiniteSets, TLC

(* ---------------- bounds ---------------- *)
MaxIngest == 2
MaxEmbedCalls == 3
MaxHalfSeconds == 44
MaxConnects == 1
MaxPresses == 1
MaxUtterances == 1
MaxUploads == 2
ChunksPerFile == 2
MaxClicks == 2
MaxRows == 2

(* ---------------- program constants ---------------- *)
SILENCE_THRESHOLD == 15000
ONE_HOUR == 3600000
maxRetries == 3
SWEEP_PERIOD == 10000
RATE_LIMIT_WINDOW == 60000
RATE_LIMIT_MAX_REQUESTS == 100
STRATEGY == "minutely"

(* ---------------- input domains ---------------- *)
SessionIds == {"s1", "s2"}
Undefined == "undefined"
\* request bodies of /ingest; the texts are "test ", " " and "" (a missing
\* text is falsy like ""), and "s2" is the id of no session
IngestInputs ==
  { [sessionId |-> "s1", language |-> Undefined, text |-> <<"t","e","s","t"," ">>],
    [sessionId |-> "s1", language |-> "da", text |-> <<"t","e","s","t"," ">>],
    [sessionId |-> "s1", language |-> "da", text |-> <<" ">>],
    [sessionId |-> "s1", language |-> Undefined, text |-> <<>>],
    [sessionId |-> Undefined, language |-> "da", text |-> <<"t","e","s","t">>],
    [sessionId |-> "s2", language |-> Undefined, text |-> <<"t","e","s","t">>] }
\* the instants at which the handlers and timers run
Times == {0, SILENCE_THRESHOLD, ONE_HOUR, ONE_HOUR + SILENCE_THRESHOLD}

VARIABLES
  now,               \* Date.now()
  sessions,          \* ids of the rows of table sessions
  total_transcripts, \* sessions.total_transcripts, per session id
  vec_transcripts,   \* rows of table vec_transcripts
  nextRowid,         \* rowid the next inserted row gets
  heap,              \* buffer objects, by object identity
  buffers,           \* the Map buffers: entries <<key, object>> in insertion order
  silence,           \* the running silence sweep callback
  interval,          \* the running interval sweep callback
  flush,             \* the running POST /api/sessions/:id/flush handler
  embedClient,       \* behaviour of openai.embeddings.create in this run
  storeFaulty,       \* whether the writes to the SQLite store can throw in this run
  failsLeft,         \* failures a failTwice client still delivers
  embedCalls,        \* number of calls of openai.embeddings.create so far
  ingested,          \* per session, the fragments accepted by /ingest, in order
  sk,                \* the module variables of public/sidekick.js
  web,               \* the browser around sidekick.js: tracks, pending handlers, settings, the Secretary
  kn,                \* the knowledge tables and the running processKnowledgeSource calls
  rate,              \* the rate limiter: rateLimitMap and the status of the last request
  search             \* POST /api/search: the chunks by distance to the query, the last request and its response

vars == <<now, sessions, total_transcripts, vec_transcripts, nextRowid,
          heap, buffers, silence, interval, flush, embedClient, storeFaulty,
          failsLeft, embedCalls, ingested, sk, web, kn, rate, search>>

\* the rate limiter and the search route
routes == <<rate, search>>

\* the state of server.js without the knowledge tables
pipeline == <<now, sessions, total_transcripts, vec_transcripts, nextRowid,
              heap, buffers, silence, interval, flush, embedClient, storeFaulty,
              failsLeft, embedCalls, ingested>>

(* ---------------- strings ---------------- *)
RECURSIVE TrimStart(_)
TrimStart(s) ==
  IF s # <<>> /\ Head(s) = " " THEN TrimStart(Tail(s)) ELSE s

RECURSIVE TrimEnd(_)
TrimEnd(s) ==
  IF s # <<>> /\ s[Len(s)] = " " THEN TrimEnd(SubSeq(s, 1, Len(s) - 1)) ELSE s

\* String.prototype.trim
Trim(s) == TrimEnd(TrimStart(s))

RECURSIVE Join(_)
\* Array.prototype.join(" ") over the texts of the lines
Join(ls) ==
  IF ls = <<>> THEN <<>>
  ELSE IF Len(ls) = 1 THEN ls[1].text
  ELSE ls[1].text \o <<" ">> \o Join(Tail(ls))

\* lines.join(" ").trim()
Content(ls) == Trim(Join(ls))

\* a test that accepts a text of whitespace only
FalsyUntrimmed(text) == text = <<>>

\* !text || !text.trim()
Falsy(text) == text = <<>> \/ Trim(text) = <<>>

(* ---------------- the Map buffers ---------------- *)
Keys == { buffers[i].key : i \in 1..Len(buffers) }

IndexOf(k) == CHOOSE i \in 1..Len(buffers) : buffers[i].key = k

\* buffers.get(k), as an object identity (0 when absent)
BufOf(k) == IF k \in Keys THEN buffers[IndexOf(k)].obj ELSE 0

\* the lines /ingest and the drains of session k see
LiveLines(k) == IF k \in Keys THEN heap[BufOf(k)].lines ELSE <<>>

\* the same in the Map bufs over the heap h
LinesIn(bufs, h, k) ==
  IF \E i \in 1..Len(bufs) : bufs[i].key = k
  THEN h[bufs[CHOOSE i \in 1..Len(bufs) : bufs[i].key = k].obj].lines
  ELSE <<>>

Idle == [pc |-> "idle"]

(* ---------------- public/sidekick.js: state at load ---------------- *)
\* null for a track, stream or sender; null for the peer connection, the data
\* channel and the session id; the empty string
Null == 0
None == "null"
Empty == <<>>

\* the let declarations at the top of sidekick.js; idleTrack, audioSender and
\* activeMicStream are globals the functions assign.  Texts are sequences of
\* utterance numbers, a track or stream is its number, audioSender is the
\* number of the connection whose peer connection owns the sender
SkInit ==
  [ pc |-> None, dc |-> None, secretaryPaused |-> FALSE, isConnected |-> FALSE,
    activeSessionId |-> None, pendingUserUtterance |-> Empty,
    accumulatedAssistantText |-> Empty, isAssistantResponding |-> FALSE,
    isRecording |-> FALSE, shouldSendResponse |-> FALSE, accumulatedTranscript |-> Empty,
    idleTrack |-> Null, audioSender |-> Null, activeMicStream |-> Null ]

\* the page before any interaction, with the two settings sidekick.js reads
WebInit(autopause, record) ==
  [ sk_autopause |-> autopause,          \* Settings.get("sk_autopause")
    sk_record_conversations |-> record,  \* Settings.get("sk_record_conversations")
    live |-> {},                         \* the tracks whose readyState is "live"
    senderTrack |-> Null,                \* the track on the audio sender of the open peer connection
    starting |-> {},                     \* startRecording calls at an await
    stopping |-> {},                     \* stopRecording calls at their await
    creating |-> 0,                      \* async blocks that will send response.create
    responses |-> 0,                     \* responses requested and not yet done
    calls |-> <<>>,                      \* the calls of Secretary.pause and Secretary.resume
    posts |-> <<>>,                      \* the bodies posted to /ingest
    tracks |-> 0,                        \* tracks created so far
    presses |-> 0,                       \* recordings started so far
    utterances |-> 0,                    \* user utterances so far
    connects |-> 0,                      \* peer connections created so far
    pcs |-> {},                          \* the peer connections created and not closed
    connecting |-> {},                   \* connectSidekick calls at an await, data channels about to open
    clicks |-> 0 ]                       \* connectSidekick calls so far

\* the knowledge tables are empty and no source is being processed
KnInit ==
  [ sources |-> {},                             \* ids of the rows of knowledge_sources
    status |-> [id \in 1..MaxUploads |-> "queued"],  \* knowledge_sources.status
    chunks |-> {},                              \* rows of knowledge_chunks
    files |-> {},                               \* sources whose uploaded file is on disk
    tasks |-> {},                               \* processKnowledgeSource calls at an await
    deleting |-> {},                            \* DELETE requests at await fs.unlink
    deleted |-> {},                             \* sources whose DELETE has returned
    uploads |-> 0 ]                             \* sources uploaded so far

\* the page and the knowledge tables at start, with the default settings
\* (auto-pause on, conversation recording off)
\* client addresses
Ips == {"a", "b"}

\* rateLimitMap is empty (an address without an entry has count 0) and no
\* request has passed the rate limiter; windows is history: per address the
\* time of the first admitted request of its latest window and the number of
\* requests admitted in that window
RateInit ==
  [ map |-> [ip \in Ips |-> [count |-> 0, resetTime |-> 0]],
    ip |-> "", status |-> 0,
    windows |-> [ip \in Ips |-> [start |-> 0, n |-> 0]] ]

\* no search has been made; the tables hold the given chunks
SearchInit(ts, ks) ==
  [transcripts |-> ts, knowledge |-> ks, request |-> [query |-> ""], status |-> 0, results |-> <<>>]

RestInit ==
  /\ sk = SkInit /\ web = WebInit(TRUE, FALSE) /\ kn = KnInit
  /\ rate = RateInit /\ search = SearchInit(<<>>, <<>>)

ServerInit(ss, kinds, faulty) ==
  /\ now = 0
  /\ sessions = ss
  /\ total_transcripts = [s \in SessionIds |-> 0]
  /\ vec_transcripts = {}
  /\ nextRowid = 1
  /\ heap = <<>>
  /\ buffers = <<>>
  /\ silence = Idle
  /\ interval = Idle
  /\ flush = Idle
  /\ embedClient \in kinds
  /\ storeFaulty = faulty
  /\ failsLeft = IF embedClient = "failTwice" THEN 2 ELSE 0
  /\ embedCalls = 0
  /\ ingested = [s \in SessionIds |-> <<>>]

InitSessions(ss, kinds, faulty) == ServerInit(ss, kinds, faulty) /\ RestInit

\* session s1 exists, s2 does not
InitWith(kinds, faulty) == InitSessions({"s1"}, kinds, faulty)

\* an embedding service and a store that may fail at any call
Init == InitWith({"flaky"}, TRUE)

\* an embedding service that may fail at any call, and a store that does not
InitReliable == InitWith({"flaky"}, FALSE)

\* an embedding service and a store that never fail
InitSucceeds == InitWith({"succeeds"}, FALSE)

\* an embedding client that fails its first two calls, and one that always fails
InitScripted == InitWith({"failTwice", "alwaysFail"}, FALSE)

(* ---------------- the clock ---------------- *)
Tick(t) ==
  /\ t > now
  /\ now' = t
  /\ UNCHANGED <<routes, sk, web, kn, sessions, total_transcripts, vec_transcripts, nextRowid, heap, buffers,
                 silence, interval, flush, embedClient, storeFaulty, failsLeft, embedCalls, ingested>>

(* ---------------- POST /ingest ---------------- *)
NumIngested == Len(ingested["s1"]) + Len(ingested["s2"])

\* the status /ingest answers
IngestStatus(sessionId, text) ==
  IF sessionId = Undefined \/ Falsy(text) THEN 400
  ELSE IF sessionId \notin sessions THEN 404
  ELSE 200

Ingest(sessionId, languageIn, text) ==
  LET language == IF languageIn = Undefined THEN "en" ELSE languageIn IN
  IF IngestStatus(sessionId, text) # 200 THEN UNCHANGED vars
  ELSE
    /\ NumIngested < MaxIngest
    /\ LET line == [id |-> NumIngested + 1, text |-> Trim(text)]
           fresh == sessionId \notin Keys
           o == IF fresh THEN Len(heap) + 1 ELSE BufOf(sessionId)
           buf == IF fresh
                  THEN [language |-> language, startedAt |-> now, lastAt |-> now, lines |-> <<>>]
                  ELSE heap[o]
           buf2 == [buf EXCEPT !.language = language,
                               !.lastAt = now,
                               !.lines = Append(buf.lines, line)]
       IN /\ heap' = IF fresh THEN Append(heap, buf2) ELSE [heap EXCEPT ![o] = buf2]
          /\ buffers' = IF fresh THEN Append(buffers, [key |-> sessionId, obj |-> o])
                        ELSE buffers
          /\ ingested' = [ingested EXCEPT ![sessionId] = Append(@, line)]
    /\ UNCHANGED <<routes, sk, web, kn, now, sessions, total_transcripts, vec_transcripts, nextRowid,
                   silence, interval, flush, embedClient, storeFaulty, failsLeft, embedCalls>>

(* ---------------- db.js ---------------- *)
\* the row a drain inserts; by (which trigger) and lines (the fragments the
\* content was joined from) are history
Row(by, t, h) ==
  [rowid |-> nextRowid, by |-> by, session_id |-> t.sessionId,
   started_at |-> h[t.buf].startedAt, ended_at |-> h[t.buf].lastAt,
   language |-> h[t.buf].language, content |-> t.content, lines |-> t.lines]

\* insert into vec_transcripts ...
insertEmbedding(rows, row) == rows \cup {row}

\* update sessions set total_transcripts = total_transcripts + 1 where id = ?
updateSessionTranscriptCount(tt, sessionId) ==
  IF sessionId \in sessions THEN [tt EXCEPT ![sessionId] = @ + 1] ELSE tt

RowsOf(rows, sessionId) == { r \in rows : r.session_id = sessionId }

(* ---------------- openai.embeddings.create and the store ---------------- *)
\* how an awaited embedding call and the two store writes after it can end
Outcomes ==
  LET stored == IF storeFaulty THEN {"ok", "insertThrows", "updateThrows"} ELSE {"ok"} IN
  CASE embedClient = "alwaysFail" -> {"error"}
    [] embedClient = "succeeds" -> stored
    [] embedClient = "failTwice" -> IF failsLeft > 0 THEN {"error"} ELSE stored
    [] OTHER -> {"error"} \cup stored

AllOutcomes == {"error", "ok", "insertThrows", "updateThrows"}

FailsLeftAfter(r) == IF r = "error" /\ failsLeft > 0 THEN failsLeft - 1 ELSE failsLeft

Inserted(r) == r \in {"ok", "updateThrows"}
Threw(r) == r # "ok"

\* the body of the try block after the await: insertEmbedding, then
\* updateSessionTranscriptCount
RowsAfter(by, t, r) ==
  IF Inserted(r) THEN insertEmbedding(vec_transcripts, Row(by, t, heap)) ELSE vec_transcripts

CountsAfter(t, r) ==
  IF r = "ok" THEN updateSessionTranscriptCount(total_transcripts, t.sessionId)
  ELSE total_transcripts

\* buf.startedAt = new Date().toISOString()
ResetStart(h, o) == [h EXCEPT ![o].startedAt = now]

\* a take that copies the lines and leaves them in the buffer
SpliceKeeps(ls) == ls

\* buf.lines.splice(0, buf.lines.length): the lines left in the buffer
Splice(ls) == <<>>

\* buf.lines.unshift(...lines)
Unshift(h, o, ls) == [h EXCEPT ![o].lines = ls \o @]

(* ---------------- garbage collection ---------------- *)
\* a buffer object no entry of the Map and no running handler refers to
Dead == [language |-> "", startedAt |-> 0, lastAt |-> 0, lines |-> <<>>]

Refs(bufs, sil, int, fl) ==
  { bufs[i].obj : i \in 1..Len(bufs) }
    \cup { t.buf : t \in { x \in {sil, int, fl} : x.pc # "idle" } }

\* the heap without the contents of unreachable objects
Collect(h, bufs, sil, int, fl) ==
  [o \in DOMAIN h |-> IF o \in Refs(bufs, sil, int, fl) THEN h[o] ELSE Dead]

(* ---------------- the two sweeps over buffers.entries() ---------------- *)
\* an interval sweep that waits for silence like the silence sweep
DueWhenSilent(kind, swNow, b) == swNow - b.lastAt >= SILENCE_THRESHOLD

\* a silence test on the start of the window instead of the last fragment
DueSinceStart(kind, swNow, b) ==
  IF kind = "silence" THEN swNow - b.startedAt >= SILENCE_THRESHOLD ELSE TRUE

\* whether a sweep drains the non-empty buffer b
Due(kind, swNow, b) ==
  IF kind = "silence" THEN swNow - b.lastAt >= SILENCE_THRESHOLD ELSE TRUE

RECURSIVE Scan(_, _, _, _)
\* The for loop from entry pos + 1 on, up to the next await or to its end:
\* the heap it leaves and the state of the callback.
Scan(kind, swNow, h, pos) ==
  IF pos >= Len(buffers) THEN [heap |-> h, task |-> Idle, called |-> 0]
  ELSE LET e == buffers[pos + 1]
           b == h[e.obj]
       IN IF b.lines = <<>> THEN Scan(kind, swNow, h, pos + 1)
          ELSE IF ~Due(kind, swNow, b) THEN Scan(kind, swNow, h, pos + 1)
          ELSE LET lines == b.lines
                   h2 == [h EXCEPT ![e.obj].lines = Splice(lines)]
                   content == Content(lines)
               IN IF content = <<>> THEN Scan(kind, swNow, h2, pos + 1)
                  ELSE [heap |-> h2, called |-> 1,
                        task |-> [pc |-> "await", pos |-> pos + 1, now |-> IF kind = "silence" THEN swNow ELSE 0,
                                  sessionId |-> e.key, buf |-> e.obj, lines |-> lines,
                                  content |-> content, retryCount |-> 0, until |-> 0]]

\* Silence detection callback, from its start to its first await
SilenceStart ==
  /\ silence.pc = "idle"
  /\ LET sc == Scan("silence", now, heap, 0)
     IN /\ embedCalls + sc.called <= MaxEmbedCalls
        /\ heap' = sc.heap
        /\ silence' = sc.task
        /\ embedCalls' = embedCalls + sc.called
  /\ UNCHANGED <<routes, sk, web, kn, now, sessions, total_transcripts, vec_transcripts, nextRowid,
                 buffers, interval, flush, embedClient, storeFaulty, failsLeft, ingested>>

\* Silence detection callback, from the end of its await to the next await
SilenceResolve(r) ==
  /\ silence.pc = "await"
  /\ r \in Outcomes
  /\ LET t == silence
         h1 == IF Threw(r) THEN Unshift(heap, t.buf, t.lines) ELSE ResetStart(heap, t.buf)
         sc == Scan("silence", t.now, h1, t.pos)
     IN /\ embedCalls + sc.called <= MaxEmbedCalls
        /\ vec_transcripts' = RowsAfter("silence", t, r)
        /\ nextRowid' = IF Inserted(r) THEN nextRowid + 1 ELSE nextRowid
        /\ total_transcripts' = CountsAfter(t, r)
        /\ heap' = Collect(sc.heap, buffers, sc.task, interval, flush)
        /\ silence' = sc.task
        /\ embedCalls' = embedCalls + sc.called
        /\ failsLeft' = FailsLeftAfter(r)
  /\ UNCHANGED <<routes, sk, web, kn, now, sessions, buffers, interval, flush, embedClient, storeFaulty, ingested>>

\* Math.pow(2, retryCount) * 1000
Backoff(retryCount) == (2 ^ retryCount) * 1000

\* Periodic flush callback of a server started with the given EMBED_STRATEGY,
\* from its start to its first await: if (STRATEGY !== "minutely") return
IntervalCallback(strategy) ==
  /\ interval.pc = "idle"
  /\ IF strategy # "minutely" THEN UNCHANGED vars
     ELSE
       /\ LET sc == Scan("interval", now, heap, 0)
          IN /\ embedCalls + sc.called <= MaxEmbedCalls
             /\ heap' = sc.heap
             /\ interval' = sc.task
             /\ embedCalls' = embedCalls + sc.called
       /\ UNCHANGED <<routes, sk, web, kn, now, sessions, total_transcripts, vec_transcripts, nextRowid,
                      buffers, silence, flush, embedClient, storeFaulty, failsLeft, ingested>>

IntervalStart == IntervalCallback(STRATEGY)

\* Periodic flush callback, from the end of an awaited embedding call to the next await
IntervalResolve(r) ==
  /\ interval.pc = "await"
  /\ r \in Outcomes
  /\ LET t == interval
         retryCount == IF Threw(r) THEN t.retryCount + 1 ELSE t.retryCount
         giveUp == Threw(r) /\ retryCount >= maxRetries
         backoff == Threw(r) /\ ~giveUp
         h1 == IF ~Threw(r) THEN ResetStart(heap, t.buf)
               ELSE IF giveUp THEN Unshift(heap, t.buf, t.lines)
               ELSE heap
         sc == IF backoff
               THEN [heap |-> h1, called |-> 0,
                     task |-> [t EXCEPT !.pc = "backoff", !.retryCount = retryCount,
                                        !.until = now + Backoff(retryCount)]]
               ELSE Scan("interval", t.now, h1, t.pos)
     IN /\ embedCalls + sc.called <= MaxEmbedCalls
        /\ vec_transcripts' = RowsAfter("interval", t, r)
        /\ nextRowid' = IF Inserted(r) THEN nextRowid + 1 ELSE nextRowid
        /\ total_transcripts' = CountsAfter(t, r)
        /\ heap' = Collect(sc.heap, buffers, silence, sc.task, flush)
        /\ interval' = sc.task
        /\ embedCalls' = embedCalls + sc.called
        /\ failsLeft' = FailsLeftAfter(r)
  /\ UNCHANGED <<routes, sk, web, kn, now, sessions, buffers, silence, flush, embedClient, storeFaulty, ingested>>

\* Periodic flush callback, after the backoff timeout: the next attempt
IntervalRetry ==
  /\ interval.pc = "backoff"
  /\ now >= interval.until
  /\ embedCalls < MaxEmbedCalls
  /\ interval' = [interval EXCEPT !.pc = "await", !.until = 0]
  /\ embedCalls' = embedCalls + 1
  /\ UNCHANGED <<routes, sk, web, kn, now, sessions, total_transcripts, vec_transcripts, nextRowid,
                 heap, buffers, silence, flush, embedClient, storeFaulty, failsLeft, ingested>>

(* ---------------- POST /api/sessions/:id/flush ---------------- *)
\* whether the handler gets as far as taking the lines
FlushTakes(sessionId) ==
  /\ sessionId \in sessions
  /\ BufOf(sessionId) # 0
  /\ heap[BufOf(sessionId)].lines # <<>>

\* a response that reports a flush although nothing was embedded
FlushStartResponseFlushed(sessionId) ==
  IF sessionId \notin sessions THEN [status |-> 404]
  ELSE [status |-> 200, flushed |-> TRUE]

\* the response of a request that ends without awaiting an embedding
FlushStartResponse(sessionId) ==
  IF sessionId \notin sessions THEN [status |-> 404]
  ELSE [status |-> 200, flushed |-> FALSE]

\* the handler up to its await, or to its response when it does not embed
FlushStart(sessionId) ==
  /\ flush.pc = "idle"
  /\ IF ~FlushTakes(sessionId) THEN UNCHANGED <<heap, flush, embedCalls>>
     ELSE LET o == BufOf(sessionId)
              lines == heap[o].lines
              content == Content(lines)
          IN /\ heap' = [heap EXCEPT ![o].lines = Splice(lines)]
             /\ IF content = <<>> THEN UNCHANGED <<flush, embedCalls>>
                ELSE
                  /\ embedCalls < MaxEmbedCalls
                  /\ flush' = [pc |-> "await", sessionId |-> sessionId, buf |-> o,
                               lines |-> lines, content |-> content]
                  /\ embedCalls' = embedCalls + 1
  /\ UNCHANGED <<routes, sk, web, kn, now, sessions, total_transcripts, vec_transcripts, nextRowid,
                 buffers, silence, interval, embedClient, storeFaulty, failsLeft, ingested>>

\* a response that reports the number of fragments instead of content.length
FlushResolveResponseCountsLines(t, r) ==
  IF Threw(r) THEN [status |-> 500]
  ELSE [status |-> 200, flushed |-> TRUE, contentLength |-> Len(t.lines)]

\* the response the handler sends after its await
FlushResolveResponse(t, r) ==
  IF Threw(r) THEN [status |-> 500]
  ELSE [status |-> 200, flushed |-> TRUE, contentLength |-> Len(t.content)]

\* the handler from the end of its await to its response
FlushResolve(r) ==
  /\ flush.pc = "await"
  /\ r \in Outcomes
  /\ LET t == flush
     IN /\ vec_transcripts' = RowsAfter("flush", t, r)
        /\ nextRowid' = IF Inserted(r) THEN nextRowid + 1 ELSE nextRowid
        /\ total_transcripts' = CountsAfter(t, r)
        /\ heap' = Collect(IF Threw(r) THEN Unshift(heap, t.buf, t.lines)
                           ELSE ResetStart(heap, t.buf),
                           buffers, silence, interval, Idle)
        /\ flush' = Idle
        /\ failsLeft' = FailsLeftAfter(r)
  /\ UNCHANGED <<routes, sk, web, kn, now, sessions, buffers, silence, interval, embedClient, storeFaulty,
                 embedCalls, ingested>>

(* ---------------- deletions from the Map under a running iterator ---------------- *)
\* how many of the first n entries of buffers are among the kept positions
KeptBefore(n, kept) == Cardinality({ i \in kept : i <= n })

\* a sweep's iterator after the entries at the other positions were deleted: it
\* goes on with the first entry it has not visited yet
Reposition(t, kept) ==
  IF t.pc = "idle" THEN t ELSE [t EXCEPT !.pos = KeptBefore(t.pos, kept)]

(* ---------------- idle buffer cleanup ---------------- *)
Stale(b) == b.lastAt < now - ONE_HOUR /\ Len(b.lines) = 0

Cleanup ==
  LET keep(e) == ~Stale(heap[e.obj])
      kept == { i \in 1..Len(buffers) : keep(buffers[i]) } IN
  /\ buffers' = SelectSeq(buffers, keep)
  /\ silence' = Reposition(silence, kept)
  /\ interval' = Reposition(interval, kept)
  /\ heap' = Collect(heap, buffers', silence, interval, flush)
  /\ UNCHANGED <<routes, sk, web, kn, now, sessions, total_transcripts, vec_transcripts, nextRowid,
                 flush, embedClient, storeFaulty, failsLeft, embedCalls, ingested>>

(* ---------------- DELETE /api/sessions/:id ---------------- *)
\* db.js deleteSession: the session's rows and the session
deleteSession(rows, sessionId) == rows \ RowsOf(rows, sessionId)

DeleteSession(sessionId) ==
  LET keep(e) == e.key # sessionId
      kept == { i \in 1..Len(buffers) : keep(buffers[i]) } IN
  /\ sessionId \in sessions
  /\ buffers' = SelectSeq(buffers, keep)
  /\ silence' = Reposition(silence, kept)
  /\ interval' = Reposition(interval, kept)
  /\ vec_transcripts' = deleteSession(vec_transcripts, sessionId)
  /\ sessions' = sessions \ {sessionId}
  /\ total_transcripts' = [total_transcripts EXCEPT ![sessionId] = 0]
  /\ heap' = Collect(heap, buffers', silence, interval, flush)
  /\ UNCHANGED <<routes, sk, web, kn, now, nextRowid, flush, embedClient, storeFaulty, failsLeft, embedCalls,
                 ingested>>

(* ---------------- DELETE /api/embeddings/:rowid ---------------- *)
\* db.js deleteEmbedding: the rows left
deleteEmbedding(rows, rowid) == { r \in rows : r.rowid # rowid }

\* db.js recalculateTranscriptCount: the counts after the update
recalculateTranscriptCount(tt, rows, sessionId) ==
  IF sessionId \in sessions
  THEN [tt EXCEPT ![sessionId] = Cardinality(RowsOf(rows, sessionId))]
  ELSE tt

\* sessionId is the one of the request body, Undefined when the body has none
DeleteEmbedding(rowid, sessionId) ==
  /\ \E r \in vec_transcripts : r.rowid = rowid
  /\ vec_transcripts' = deleteEmbedding(vec_transcripts, rowid)
  /\ total_transcripts' =
       IF sessionId # Undefined
       THEN recalculateTranscriptCount(total_transcripts, vec_transcripts', sessionId)
       ELSE total_transcripts
  /\ UNCHANGED <<routes, sk, web, kn, now, sessions, nextRowid, heap, buffers, silence, interval, flush,
                 embedClient, storeFaulty, failsLeft, embedCalls, ingested>>

(* ---------------- GET /api/sessions/:id/last-chunk ---------------- *)
\* select ... where session_id = ? order by ended_at desc limit 1: the rows the
\* query can return (rows that ended at the same time are in no defined order)
LastRows(id) ==
  { r \in RowsOf(vec_transcripts, id) :
      \A q \in RowsOf(vec_transcripts, id) : q.ended_at <= r.ended_at }

\* a handler that looks into the store before it looks into the buffer
LastChunkResponsesDbFirst(id) ==
  IF LastRows(id) # {}
  THEN { [source |-> "db", content |-> r.content, started_at |-> r.started_at,
          ended_at |-> r.ended_at, language |-> r.language] : r \in LastRows(id) }
  ELSE IF LiveLines(id) # <<>>
  THEN { [source |-> "buffer", content |-> Content(LiveLines(id)),
          started_at |-> heap[BufOf(id)].startedAt, ended_at |-> heap[BufOf(id)].lastAt,
          language |-> heap[BufOf(id)].language] }
  ELSE { [source |-> "none", content |-> <<>>] }

\* the responses the handler can send
LastChunkResponses(id) ==
  IF LiveLines(id) # <<>>
  THEN { [source |-> "buffer", content |-> Content(LiveLines(id)),
          started_at |-> heap[BufOf(id)].startedAt, ended_at |-> heap[BufOf(id)].lastAt,
          language |-> heap[BufOf(id)].language] }
  ELSE IF LastRows(id) = {} THEN { [source |-> "none", content |-> <<>>] }
  ELSE { [source |-> "db", content |-> r.content, started_at |-> r.started_at,
          ended_at |-> r.ended_at, language |-> r.language] : r \in LastRows(id) }

\* the handler reads and writes nothing
GetLastChunk(id) == LastChunkResponses(id) # {} /\ UNCHANGED vars

\* ingest, the three drain triggers and the idle cleanup
Pipeline ==
  \/ \E t \in Times : Tick(t)
  \/ \E b \in IngestInputs : Ingest(b.sessionId, b.language, b.text)
  \/ SilenceStart
  \/ \E r \in AllOutcomes : SilenceResolve(r)
  \/ IntervalStart
  \/ \E r \in AllOutcomes : IntervalResolve(r)
  \/ IntervalRetry
  \/ \E s \in SessionIds : FlushStart(s)
  \/ \E r \in AllOutcomes : FlushResolve(r)
  \/ Cleanup

Next ==
  \/ Pipeline
  \/ \E s \in SessionIds : DeleteSession(s)
  \/ \E n \in 1..MaxEmbedCalls, s \in SessionIds \cup {Undefined} : DeleteEmbedding(n, s)
  \/ \E id \in SessionIds : GetLastChunk(id)

Spec == Init /\ [][Next]_vars

SpecPipeline == InitReliable /\ [][Pipeline]_vars

SpecFaulty == Init /\ [][Pipeline]_vars

\* the pipeline and the last-chunk requests
SpecReads == InitReliable /\ [][Pipeline \/ \E id \in SessionIds : GetLastChunk(id)]_vars

SpecScripted == InitScripted /\ [][Pipeline]_vars

(* ---------------- two sessions with buffers ---------------- *)
\* The silence sweep, manual flushes and the cleanup over the buffers of two
\* existing sessions.
\* sessions s1 and s2 both exist
InitTwo == InitSessions(SessionIds, {"flaky"}, FALSE)

\* request bodies of /ingest for the two sessions
TwoInputs ==
  { [sessionId |-> "s1", language |-> Undefined, text |-> <<"t","e","s","t"," ">>],
    [sessionId |-> "s2", language |-> Undefined, text |-> <<"t","e","s","t">>] }

TwoNext ==
  \/ \E t \in Times : Tick(t)
  \/ \E b \in TwoInputs : Ingest(b.sessionId, b.language, b.text)
  \/ SilenceStart
  \/ \E r \in AllOutcomes : SilenceResolve(r)
  \/ \E s \in SessionIds : FlushStart(s)
  \/ \E r \in AllOutcomes : FlushResolve(r)
  \/ Cleanup

SpecTwo == InitTwo /\ [][TwoNext]_vars

(* ---------------- EMBED_STRATEGY=never ---------------- *)
\* the server as the end-to-end tests start it
NeverNext ==
  \/ \E t \in Times : Tick(t)
  \/ \E b \in IngestInputs : Ingest(b.sessionId, b.language, b.text)
  \/ SilenceStart
  \/ \E r \in AllOutcomes : SilenceResolve(r)
  \/ IntervalCallback("never")
  \/ \E s \in SessionIds : FlushStart(s)
  \/ \E r \in AllOutcomes : FlushResolve(r)
  \/ Cleanup

SpecNever == InitReliable /\ [][NeverNext]_vars

(* ---------------- the pipeline with a succeeding embedding client ---------------- *)
\* with calls that never fail the retry loop is never entered
LiveNext ==
  \/ \E t \in Times : Tick(t)
  \/ \E b \in IngestInputs : Ingest(b.sessionId, b.language, b.text)
  \/ SilenceStart
  \/ \E r \in AllOutcomes : SilenceResolve(r)
  \/ IntervalStart
  \/ \E r \in AllOutcomes : IntervalResolve(r)
  \/ \E s \in SessionIds : FlushStart(s)
  \/ \E r \in AllOutcomes : FlushResolve(r)
  \/ Cleanup

\* setInterval keeps firing the interval callback, and every awaited embedding
\* call returns
SpecLive ==
  /\ InitSucceeds
  /\ [][LiveNext]_vars
  /\ WF_vars(IntervalStart)
  /\ WF_vars(\E r \in AllOutcomes : IntervalResolve(r))
  /\ WF_vars(\E r \in AllOutcomes : SilenceResolve(r))
  /\ WF_vars(\E r \in AllOutcomes : FlushResolve(r))

(* ---------------- the silence sweep on its 10-second schedule ---------------- *)
\* the fragments "Hello " and "world"
Hello == <<"H","e","l","l","o"," ">>
World == <<"w","o","r","l","d">>

\* the clock in steps of 500 ms
TimedTimes == { 500 * i : i \in 0..MaxHalfSeconds }

\* the instants at which setInterval fires the silence detection callback
SweepInstant == now % SWEEP_PERIOD = 0

\* the callback of this instant has still to run or to finish: a silent buffer
\* holds lines, or the callback awaits its embedding call
SweepPending ==
  /\ SweepInstant
  /\ \/ silence.pc # "idle"
     \/ \E k \in Keys : LiveLines(k) # <<>> /\ Due("silence", now, heap[BufOf(k)])

\* time passes once the callback due at this instant has run; the embedding
\* call takes no time
TimedTick == ~SweepPending /\ now + 500 \in TimedTimes /\ Tick(now + 500)

TimedSilenceStart == SweepInstant /\ SilenceStart

TimedNext ==
  \/ TimedTick
  \/ \E text \in {Hello, World} : Ingest("s1", Undefined, text)
  \/ TimedSilenceStart
  \/ \E r \in AllOutcomes : SilenceResolve(r)

SpecTimed == InitSucceeds /\ [][TimedNext]_vars

(***************************************************************************)
(* public/sidekick.js: the Sidekick panel in the browser.                  *)
(*                                                                         *)
(* Every action is the synchronous part of one handler, from its start or  *)
(* from the end of an await to the next await.                             *)
(***************************************************************************)
Open == "open"

\* a pause that does not look at secretaryPaused
ShouldPauseAgain(s) == web.sk_autopause

\* window.Settings.get("sk_autopause", true) && window.Secretary.pause && !secretaryPaused
ShouldPause(s) == web.sk_autopause /\ ~s.secretaryPaused

\* the module variables and the Secretary after the guarded Secretary.pause()
Paused(s) == IF ShouldPause(s) THEN [s EXCEPT !.secretaryPaused = TRUE] ELSE s
CallsAfterPause(s) == IF ShouldPause(s) THEN Append(web.calls, "pause") ELSE web.calls

\* if (secretaryPaused && window.Secretary?.resume) { resume(); secretaryPaused = false }
Resumed(s) == [s EXCEPT !.secretaryPaused = FALSE]
CallsAfterResume(s) == IF s.secretaryPaused THEN Append(web.calls, "resume") ELSE web.calls

\* connectSidekick with every step of the set-up succeeding, up to dc.onopen
\* and bindPTT: a peer connection whose one audio sender carries the disabled
\* idle track, and an open data channel
Connect(sessionId) ==
  /\ ~sk.isConnected
  /\ web.connects < MaxConnects
  /\ LET track == web.tracks + 1
         conn == web.connects + 1
     IN /\ sk' = [sk EXCEPT !.activeSessionId = sessionId, !.pc = Open, !.dc = Open,
                            !.idleTrack = track, !.audioSender = conn,
                            !.isConnected = TRUE]
        /\ web' = [web EXCEPT !.tracks = track, !.connects = conn, !.pcs = @ \cup {conn},
                              !.live = @ \cup {track}, !.senderTrack = track]
  /\ UNCHANGED <<routes, pipeline, kn>>

\* disconnect(): the module variables it leaves; it stops and closes what the
\* variables refer to, and pc, when set, is the peer connection created last
disconnect(s) ==
  Resumed([s EXCEPT !.activeMicStream = Null, !.idleTrack = Null,
                    !.dc = None, !.pc = None, !.audioSender = Null,
                    !.activeSessionId = None, !.pendingUserUtterance = Empty,
                    !.isConnected = FALSE])

\* the page after disconnect()
Disconnected(w) ==
  [w EXCEPT !.live = @ \ {sk.activeMicStream, sk.idleTrack},
            !.pcs = IF sk.pc = Open THEN @ \ {w.connects} ELSE @,
            !.senderTrack = Null,
            !.responses = 0,
            !.calls = CallsAfterResume(sk)]

\* disconnect(), called by the Disconnect button and by a failed ICE connection
Disconnect ==
  /\ sk.pc = Open
  /\ sk' = disconnect(sk)
  /\ web' = Disconnected(web)
  /\ UNCHANGED <<routes, pipeline, kn>>

\* startRecording, up to await getUserMedia
Press ==
  IF ~sk.isConnected THEN UNCHANGED vars
  ELSE LET s1 == [sk EXCEPT !.isAssistantResponding = FALSE] IN
       IF sk.isRecording THEN sk' = s1 /\ UNCHANGED <<routes, pipeline, web, kn>>
       ELSE /\ web.presses < MaxPresses
            /\ sk' = Paused([s1 EXCEPT !.isRecording = TRUE, !.shouldSendResponse = FALSE,
                                       !.accumulatedTranscript = Empty])
            /\ web' = [web EXCEPT !.presses = @ + 1,
                                  !.calls = CallsAfterPause(s1),
                                  !.starting = @ \cup {[id |-> web.presses + 1,
                                                        at |-> "getUserMedia",
                                                        stream |-> Null, sender |-> Null]}]
            /\ UNCHANGED <<routes, pipeline, kn>>

\* the catch block of startRecording
StartFailed(s) == [s EXCEPT !.isRecording = FALSE]

\* startRecording after getUserMedia has resolved: the stream is stored and
\* audioSender.replaceTrack(micTrack) is called, which throws when audioSender
\* is null
MicGranted(t) ==
  /\ t \in web.starting /\ t.at = "getUserMedia"
  /\ LET stream == web.tracks + 1
         s1 == [sk EXCEPT !.activeMicStream = stream]
     IN IF sk.audioSender = Null
        THEN /\ sk' = StartFailed(s1)
             /\ web' = [web EXCEPT !.tracks = stream, !.live = @ \cup {stream},
                                   !.starting = @ \ {t}]
        ELSE /\ sk' = s1
             /\ web' = [web EXCEPT !.tracks = stream, !.live = @ \cup {stream},
                                   !.starting = (@ \ {t}) \cup
                                      {[t EXCEPT !.at = "replaceTrack", !.stream = stream,
                                                 !.sender = sk.audioSender]}]
  /\ UNCHANGED <<routes, pipeline, kn>>

\* startRecording after getUserMedia has rejected
MicDenied(t) ==
  /\ t \in web.starting /\ t.at = "getUserMedia"
  /\ sk' = StartFailed(sk)
  /\ web' = [web EXCEPT !.starting = @ \ {t}]
  /\ UNCHANGED <<routes, pipeline, kn>>

\* whether replaceTrack on the sender of connection c resolves: its peer
\* connection is the open one
Replaces(c) == sk.pc = Open /\ c = web.connects

\* startRecording after replaceTrack(micTrack) has settled
StartReplaced(t) ==
  /\ t \in web.starting /\ t.at = "replaceTrack"
  /\ IF Replaces(t.sender)
     THEN /\ web' = [web EXCEPT !.senderTrack = t.stream, !.starting = @ \ {t}]
          /\ sk' = sk
     ELSE /\ web' = [web EXCEPT !.starting = @ \ {t}]
          /\ sk' = StartFailed(sk)
  /\ UNCHANGED <<routes, pipeline, kn>>

\* stopRecording from "Send response if we have accumulated transcript" on:
\* whether it requests a response, and the module variables it leaves
Responds(s) == s.shouldSendResponse /\ s.accumulatedTranscript # Empty

StopTail(s) ==
  IF Responds(s)
  THEN [s EXCEPT !.pendingUserUtterance = s.accumulatedTranscript,
                 !.accumulatedTranscript = Empty]
  ELSE s

\* stopRecording, up to await audioSender.replaceTrack(idleTrack), or to its
\* end when there is no microphone stream; the call throws when audioSender is
\* null
Release ==
  IF ~sk.isRecording THEN UNCHANGED vars
  ELSE LET s1 == [sk EXCEPT !.isRecording = FALSE, !.shouldSendResponse = TRUE] IN
       /\ IF sk.activeMicStream # Null
          THEN /\ sk' = s1
               /\ web' = IF sk.audioSender = Null THEN web
                         ELSE [web EXCEPT !.stopping = @ \cup {[id |-> web.presses,
                                                               sender |-> sk.audioSender,
                                                               track |-> sk.idleTrack]}]
          ELSE /\ sk' = StopTail(s1)
               /\ web' = [web EXCEPT !.creating = IF Responds(s1) THEN @ + 1 ELSE @]
       /\ UNCHANGED <<routes, pipeline, kn>>

\* stopRecording after replaceTrack(idleTrack) has settled: a rejection ends
\* the handler, and so does activeMicStream.getTracks() on null
StopReplaced(t) ==
  /\ t \in web.stopping
  /\ IF ~Replaces(t.sender)
     THEN sk' = sk /\ web' = [web EXCEPT !.stopping = @ \ {t}]
     ELSE IF sk.activeMicStream = Null
     THEN sk' = sk /\ web' = [web EXCEPT !.stopping = @ \ {t}, !.senderTrack = t.track]
     ELSE LET s1 == [sk EXCEPT !.activeMicStream = Null] IN
          /\ sk' = StopTail(s1)
          /\ web' = [web EXCEPT !.stopping = @ \ {t}, !.senderTrack = t.track,
                                !.live = @ \ {sk.activeMicStream},
                                !.creating = IF Responds(s1) THEN @ + 1 ELSE @]
  /\ UNCHANGED <<routes, pipeline, kn>>

\* sendText with a non-empty text, up to the await of its async block
SendText ==
  IF ~sk.isConnected THEN UNCHANGED vars
  ELSE /\ web.utterances < MaxUtterances
       /\ LET n == web.utterances + 1
              s1 == [sk EXCEPT !.pendingUserUtterance = <<n>>]
          IN /\ sk' = Paused(s1)
             /\ web' = [web EXCEPT !.utterances = n, !.calls = CallsAfterPause(s1),
                                   !.creating = @ + 1]
       /\ UNCHANGED <<routes, pipeline, kn>>

\* an async block after await buildRagContextFromQuery: sendEvent of
\* response.create, which sends when the data channel is open
RagResolved ==
  /\ web.creating > 0
  /\ web' = [web EXCEPT !.creating = @ - 1,
                        !.responses = IF sk.dc = Open THEN @ + 1 ELSE @]
  /\ UNCHANGED <<routes, pipeline, sk, kn>>

(* ---------------- onRealtimeMessage ---------------- *)
\* conversation.item.input_audio_transcription.completed with a transcript
Transcribed ==
  /\ sk.dc = Open
  /\ web.utterances < MaxUtterances
  /\ LET n == web.utterances + 1 IN
     IF sk.isRecording
     THEN /\ sk' = [sk EXCEPT !.accumulatedTranscript = @ \o <<n>>]
          /\ web' = [web EXCEPT !.utterances = n]
     ELSE /\ sk' = [sk EXCEPT !.pendingUserUtterance = <<n>>]
          /\ web' = [web EXCEPT !.utterances = n, !.creating = @ + 1]
  /\ UNCHANGED <<routes, pipeline, kn>>

\* response.text.delta, response.audio_transcript.delta
Delta ==
  /\ sk.dc = Open /\ web.responses > 0
  /\ sk' = [sk EXCEPT !.isAssistantResponding = TRUE]
  /\ UNCHANGED <<routes, pipeline, web, kn>>

\* the text of an assistant reply
Reply == <<"reply">>

\* response.text.done, response.audio_transcript.done with a text
TextDone ==
  /\ sk.dc = Open /\ web.responses > 0
  /\ sk' = [sk EXCEPT !.accumulatedAssistantText = Reply]
  /\ UNCHANGED <<routes, pipeline, web, kn>>

\* `[Sidekick conversation]\nYou: ${userText}\nSidekick: ${assistantText}`
\* one block of three lines: the heading, the "You: " part and the "Sidekick: " part
Payload(userText, assistantText) ==
  [heading |-> "[Sidekick conversation]", You |-> userText, Sidekick |-> assistantText]

\* a recordConversation that does not look at the setting
recordConversationAlways(s, userText, assistantText) ==
  IF userText = Empty \/ assistantText = Empty THEN <<>>
  ELSE IF s.activeSessionId = None THEN <<>>
  ELSE << [sessionId |-> s.activeSessionId, text |-> Payload(userText, assistantText)] >>

\* recordConversation and ingestText: the bodies posted to /ingest
recordConversation(s, userText, assistantText) ==
  IF ~web.sk_record_conversations \/ userText = Empty \/ assistantText = Empty THEN <<>>
  ELSE IF s.activeSessionId = None THEN <<>>
  ELSE << [sessionId |-> s.activeSessionId, text |-> Payload(userText, assistantText)] >>

\* response.done, with the text of msg.response.output (Empty when there is none)
ResponseDone(output) ==
  /\ sk.dc = Open /\ web.responses > 0
  /\ LET s1 == [sk EXCEPT !.isAssistantResponding = FALSE,
                          !.accumulatedAssistantText =
                              IF @ = Empty /\ output # Empty THEN output ELSE @]
         posted == IF s1.pendingUserUtterance # Empty /\ s1.accumulatedAssistantText # Empty
                   THEN recordConversation(s1, s1.pendingUserUtterance,
                                           s1.accumulatedAssistantText)
                   ELSE <<>>
     IN /\ sk' = Resumed([s1 EXCEPT !.pendingUserUtterance = Empty,
                                    !.accumulatedAssistantText = Empty,
                                    !.shouldSendResponse = FALSE])
        /\ web' = [web EXCEPT !.responses = @ - 1,
                              !.posts = @ \o posted,
                              !.calls = CallsAfterResume(s1)]
  /\ UNCHANGED <<routes, pipeline, kn>>

\* response.cancelled
ResponseCancelled ==
  /\ sk.dc = Open
  /\ sk' = [sk EXCEPT !.isAssistantResponding = FALSE, !.accumulatedAssistantText = Empty]
  /\ UNCHANGED <<routes, pipeline, web, kn>>

\* error
ErrorEvent ==
  /\ sk.dc = Open
  /\ sk' = [sk EXCEPT !.isAssistantResponding = FALSE]
  /\ UNCHANGED <<routes, pipeline, web, kn>>

\* the user at the panel, the pending handlers and the Realtime API
SidekickNext ==
  \/ \E id \in {None, "s1"} : Connect(id)
  \/ Disconnect
  \/ Press
  \/ \E t \in web.starting : MicGranted(t)
  \/ \E t \in web.starting : MicDenied(t)
  \/ \E t \in web.starting : StartReplaced(t)
  \/ Release
  \/ \E t \in web.stopping : StopReplaced(t)
  \/ SendText
  \/ RagResolved
  \/ Transcribed
  \/ Delta
  \/ TextDone
  \/ \E output \in {Empty, Reply} : ResponseDone(output)
  \/ ResponseCancelled
  \/ ErrorEvent

\* the page with any values of the two settings
InitSidekick ==
  /\ ServerInit({"s1"}, {"succeeds"}, FALSE)
  /\ sk = SkInit
  /\ \E autopause, record \in BOOLEAN : web = WebInit(autopause, record)
  /\ kn = KnInit
  /\ rate = RateInit /\ search = SearchInit(<<>>, <<>>)

SpecSidekick == InitSidekick /\ [][SidekickNext]_vars

\* every awaited promise of a handler settles, and the Realtime API completes
\* every response it was asked for while the data channel is open; the user is
\* not obliged to do anything
SpecSidekickFair ==
  /\ InitSidekick
  /\ [][SidekickNext]_vars
  /\ WF_vars(\E t \in web.starting : MicGranted(t) \/ StartReplaced(t))
  /\ WF_vars(\E t \in web.stopping : StopReplaced(t))
  /\ WF_vars(RagResolved)
  /\ WF_vars(\E output \in {Empty, Reply} : ResponseDone(output))

(* ---------------- connectSidekick, await by await ---------------- *)
\* connectBtn.onclick while the button says Connect, and connectSidekick up to
\* its first await (the context or the ephemeral token)
ConnectClick(sessionId) ==
  /\ ~sk.isConnected
  /\ web.clicks < MaxClicks
  /\ sk' = [sk EXCEPT !.activeSessionId = sessionId]
  /\ web' = [web EXCEPT !.clicks = @ + 1,
                        !.connecting = @ \cup {[id |-> web.clicks + 1, at |-> "token",
                                                sessionId |-> sessionId, dcOf |-> 0]}]
  /\ UNCHANGED <<routes, pipeline, kn>>

\* the token has arrived: pc = new RTCPeerConnection(...), up to await getUserMedia
TokenFetched(t) ==
  /\ t \in web.connecting /\ t.at = "token"
  /\ LET conn == web.connects + 1 IN
     /\ sk' = [sk EXCEPT !.pc = Open]
     /\ web' = [web EXCEPT !.connects = conn, !.pcs = @ \cup {conn},
                           !.connecting = (@ \ {t}) \cup {[t EXCEPT !.at = "getUserMedia"]}]
  /\ UNCHANGED <<routes, pipeline, kn>>

\* an awaited step of connectSidekick rejects, or one of its calls throws: the
\* catch block, which calls disconnect()
ConnectThrows(t) ==
  /\ sk' = disconnect(sk)
  /\ web' = [Disconnected(web) EXCEPT !.connecting = @ \ {t}]
  /\ UNCHANGED <<routes, pipeline, kn>>

ConnectFailed(t) ==
  /\ t \in web.connecting /\ t.at # "opening"
  /\ ConnectThrows(t)

\* the dummy stream has arrived: idleTrack, audioSender = pc.addTrack(...) and
\* dc = pc.createDataChannel(...) on the peer connection pc refers to now, up
\* to await pc.createOffer(); pc.addTrack throws when pc is null
IdleGranted(t) ==
  /\ t \in web.connecting /\ t.at = "getUserMedia"
  /\ IF sk.pc = None THEN ConnectThrows(t)
     ELSE LET track == web.tracks + 1 IN
          /\ sk' = [sk EXCEPT !.idleTrack = track, !.audioSender = web.connects, !.dc = Open]
          /\ web' = [web EXCEPT !.tracks = track, !.live = @ \cup {track},
                                !.senderTrack = track,
                                !.connecting = (@ \ {t}) \cup
                                   {[t EXCEPT !.at = "offer", !.dcOf = web.connects]}]
          /\ UNCHANGED <<routes, pipeline, kn>>

\* the offer has been answered and pc.setRemoteDescription has resolved:
\* bindPTT; the data channel of this call is about to open
Answered(t) ==
  /\ t \in web.connecting /\ t.at = "offer"
  /\ IF sk.pc = None THEN ConnectThrows(t)
     ELSE /\ web' = [web EXCEPT !.connecting = (@ \ {t}) \cup {[t EXCEPT !.at = "opening"]}]
          /\ UNCHANGED <<routes, pipeline, sk, kn>>

\* dc.onopen of the data channel a call created, unless its peer connection
\* has been closed
DcOpen(t) ==
  /\ t \in web.connecting /\ t.at = "opening"
  /\ web' = [web EXCEPT !.connecting = @ \ {t}]
  /\ sk' = IF t.dcOf \in web.pcs
           THEN [sk EXCEPT !.isConnected = TRUE, !.activeSessionId = t.sessionId]
           ELSE sk
  /\ UNCHANGED <<routes, pipeline, kn>>

\* the user at the Connect button, the awaits of connectSidekick, and
\* disconnect()
ConnectNext ==
  \/ \E id \in {None, "s1"} : ConnectClick(id)
  \/ \E t \in web.connecting :
       TokenFetched(t) \/ ConnectFailed(t) \/ IdleGranted(t) \/ Answered(t) \/ DcOpen(t)
  \/ Disconnect

SpecConnect == InitSidekick /\ [][ConnectNext]_vars

(***************************************************************************)
(* server.js: knowledge sources.                                           *)
(***************************************************************************)
\* knowledge_sources rows with the given status changed
\* (update knowledge_sources set status = ? where id = ?)
updateKnowledgeSourceStatus(k, sourceId, status) ==
  [k EXCEPT !.status = [id \in DOMAIN @ |-> IF id = sourceId /\ id \in k.sources
                                            THEN status ELSE @[id]]]

\* insert into knowledge_chunks ...
insertKnowledgeChunk(k, sourceId, chunkIndex) ==
  [k EXCEPT !.chunks = @ \cup {[source_id |-> sourceId, chunk_index |-> chunkIndex]}]

\* delete from knowledge_chunks where source_id = ?; delete from
\* knowledge_sources where id = ?
deleteKnowledgeSource(k, sourceId) ==
  [k EXCEPT !.chunks = { c \in @ : c.source_id # sourceId },
            !.sources = @ \ {sourceId}]

\* POST /api/sessions/:id/knowledge of a file for an existing session: the
\* source row is created and processKnowledgeSource runs up to
\* await extractTextFromFile
Upload ==
  /\ kn.uploads < MaxUploads
  /\ LET id == kn.uploads + 1
         k1 == [kn EXCEPT !.uploads = id, !.sources = @ \cup {id}, !.files = @ \cup {id}]
     IN kn' = [updateKnowledgeSourceStatus(k1, id, "processing")
                 EXCEPT !.tasks = @ \cup {[source |-> id, at |-> "extract", i |-> 0]}]
  /\ UNCHANGED <<routes, pipeline, sk, web>>

\* the catch block of processKnowledgeSource
ProcessingFailed(k, t) ==
  [updateKnowledgeSourceStatus(k, t.source, "error") EXCEPT !.tasks = @ \ {t}]

\* processKnowledgeSource after extractTextFromFile: chunkText, then await fs.stat
Extracted(t) ==
  /\ t \in kn.tasks /\ t.at = "extract"
  /\ kn' = IF t.source \in kn.files
           THEN [kn EXCEPT !.tasks = (@ \ {t}) \cup {[t EXCEPT !.at = "stat"]}]
           ELSE ProcessingFailed(kn, t)
  /\ UNCHANGED <<routes, pipeline, sk, web>>

\* processKnowledgeSource after fs.stat: the loop up to the embedding call of
\* the first chunk
Statted(t) ==
  /\ t \in kn.tasks /\ t.at = "stat"
  /\ kn' = IF t.source \in kn.files
           THEN [kn EXCEPT !.tasks = (@ \ {t}) \cup {[t EXCEPT !.at = "embed"]}]
           ELSE ProcessingFailed(kn, t)
  /\ UNCHANGED <<routes, pipeline, sk, web>>

\* processKnowledgeSource after the embedding call of chunk i: the chunk is
\* inserted and the loop goes on, or the source becomes ready
Embedded(t, r) ==
  /\ t \in kn.tasks /\ t.at = "embed"
  /\ r \in {"ok", "error"}
  /\ kn' = IF r = "error" THEN ProcessingFailed(kn, t)
           ELSE LET k1 == insertKnowledgeChunk(kn, t.source, t.i) IN
                IF t.i + 1 < ChunksPerFile
                THEN [k1 EXCEPT !.tasks = (@ \ {t}) \cup {[t EXCEPT !.i = @ + 1]}]
                ELSE [updateKnowledgeSourceStatus(k1, t.source, "ready")
                        EXCEPT !.tasks = @ \ {t}]
  /\ UNCHANGED <<routes, pipeline, sk, web>>

\* DELETE /api/sessions/:id/knowledge/:sourceId up to await fs.unlink; a
\* source that does not exist is answered with 404
DeleteKnowledge(sourceId) ==
  /\ sourceId \notin kn.deleting
  /\ kn' = IF sourceId \in kn.sources
           THEN [deleteKnowledgeSource(kn, sourceId) EXCEPT !.deleting = @ \cup {sourceId}]
           ELSE kn
  /\ UNCHANGED <<routes, pipeline, sk, web>>

\* the same after fs.unlink: the response is sent
DeleteReturns(sourceId) ==
  /\ sourceId \in kn.deleting
  /\ kn' = [kn EXCEPT !.deleting = @ \ {sourceId}, !.files = @ \ {sourceId},
                      !.deleted = @ \cup {sourceId}]
  /\ UNCHANGED <<routes, pipeline, sk, web>>

KnowledgeNext ==
  \/ Upload
  \/ \E t \in kn.tasks : Extracted(t)
  \/ \E t \in kn.tasks : Statted(t)
  \/ \E t \in kn.tasks, r \in {"ok", "error"} : Embedded(t, r)
  \/ \E id \in 1..MaxUploads : DeleteKnowledge(id)
  \/ \E id \in 1..MaxUploads : DeleteReturns(id)

SpecKnowledge == InitReliable /\ [][KnowledgeNext]_vars

(***************************************************************************)
(* server.js: the rate limiter.                                            *)
(***************************************************************************)
\* the instants of the requests and of the cleanup
RateTimes == {RATE_LIMIT_WINDOW, RATE_LIMIT_WINDOW + 1}

\* an entry that is taken as expired already at its reset time
ExpiredAtReset(limit) == now >= limit.resetTime

\* now > limit.resetTime
Expired(limit) == now > limit.resetTime

\* the windows of admitted requests after one more is admitted: it opens a
\* new window when none is open or the latest one ended before now
Admitted(w) ==
  IF w.n = 0 \/ now > w.start + RATE_LIMIT_WINDOW
  THEN [start |-> now, n |-> 1]
  ELSE [w EXCEPT !.n = @ + 1]

\* rateLimit(req, res, next) for a request of address ip
rateLimit(ip) ==
  /\ LET limit == rate.map[ip]
         fresh == [count |-> 1, resetTime |-> now + RATE_LIMIT_WINDOW]
         next == [rate EXCEPT !.ip = ip, !.status = 200, !.windows[ip] = Admitted(@)]
     IN rate' =
          IF limit.count = 0 THEN [next EXCEPT !.map[ip] = fresh]
          ELSE IF Expired(limit) THEN [next EXCEPT !.map[ip] = fresh]
          ELSE IF limit.count >= RATE_LIMIT_MAX_REQUESTS
          THEN [rate EXCEPT !.ip = ip, !.status = 429]
          ELSE [next EXCEPT !.map[ip].count = @ + 1]
  /\ UNCHANGED <<pipeline, sk, web, kn, search>>

\* the cleanup callback of setInterval
RateCleanup ==
  /\ rate' = [rate EXCEPT !.map =
                [ip \in Ips |-> IF rate.map[ip].count > 0 /\ Expired(rate.map[ip])
                                THEN [count |-> 0, resetTime |-> 0]
                                ELSE rate.map[ip]]]
  /\ UNCHANGED <<pipeline, sk, web, kn, search>>

RateNext ==
  \/ \E t \in RateTimes : Tick(t)
  \/ \E ip \in Ips : rateLimit(ip)
  \/ RateCleanup

SpecRate == InitReliable /\ [][RateNext]_vars

(***************************************************************************)
(* server.js: POST /api/search.                                            *)
(*                                                                         *)
(* A chunk is its distance to the query; a table is the sequence of its    *)
(* chunks by ascending distance.                                           *)
(***************************************************************************)
Distances == {1, 2, 3}

\* the tables a search can meet: up to MaxRows chunks each
Tables ==
  { t \in UNION { [1..n -> Distances] : n \in 0..MaxRows } :
      \A i \in 1..Len(t) - 1 : t[i] <= t[i + 1] }

\* request bodies of /api/search; a body has the fields it was sent with
SearchBodies ==
  { [query |-> ""],
    [query |-> "q"],
    [query |-> "q", limit |-> 0],
    [query |-> "q", limit |-> 1],
    [query |-> "q", limit |-> 1, include |-> "both"],
    [query |-> "q", limit |-> 101, include |-> "both"],
    [query |-> "q", limit |-> 2, include |-> "transcripts"],
    [query |-> "q", limit |-> 1, include |-> "knowledge"],
    [query |-> "q", limit |-> 1, include |-> "both", k_transcripts |-> 2],
    [query |-> "q", limit |-> 1, include |-> "both", k_transcripts |-> 1, k_knowledge |-> 60] }

\* a destructured field with its default
Field(body, name, default) == IF name \in DOMAIN body THEN body[name] ELSE default

Min(a, b) == IF a <= b THEN a ELSE b
Max(a, b) == IF a >= b THEN a ELSE b

\* Math.min(Math.max(1, limit), 100)
ClampLimit(limit) == Min(Max(1, limit), 100)

\* k ? Math.min(Math.max(1, k), 50) : limit
ClampK(k, limit) == IF k # Null THEN Min(Max(1, k), 50) ELSE limit

\* select ... where embedding match ? and k = ? order by distance
searchSimilar(table, k) == SubSeq(table, 1, Min(k, Len(table)))

searchSimilarKnowledge(table, k) == SubSeq(table, 1, Min(k, Len(table)))

\* rows.map(r => ({ ...r, source }))
Tagged(rows, source) == [i \in 1..Len(rows) |-> [source |-> source, distance |-> rows[i]]]

RECURSIVE SortByDistance(_)
\* results.sort((a, b) => a.distance - b.distance), a stable sort
SortByDistance(rs) ==
  IF rs = <<>> THEN <<>>
  ELSE LET sorted == SortByDistance(SubSeq(rs, 1, Len(rs) - 1))
           last == rs[Len(rs)]
           n == Cardinality({ i \in 1..Len(sorted) : sorted[i].distance <= last.distance })
       IN SubSeq(sorted, 1, n) \o <<last>> \o SubSeq(sorted, n + 1, Len(sorted))

\* the handler of POST /api/search; r is how the embedding call ends
Search(body, r) ==
  LET limit == ClampLimit(Field(body, "limit", 5))
      include == Field(body, "include", "both")
      k_transcripts == ClampK(Field(body, "k_transcripts", Null), limit)
      k_knowledge == ClampK(Field(body, "k_knowledge", Null), limit)
      found == (IF include \in {"transcripts", "both"}
                THEN Tagged(searchSimilar(search.transcripts, k_transcripts), "transcript")
                ELSE <<>>)
               \o (IF include \in {"knowledge", "both"}
                   THEN Tagged(searchSimilarKnowledge(search.knowledge, k_knowledge), "knowledge")
                   ELSE <<>>)
      sorted == SortByDistance(found)
      results == IF include = "both" /\ k_transcripts = Null /\ k_knowledge = Null
                 THEN SubSeq(sorted, 1, Min(limit, Len(sorted)))
                 ELSE sorted
  IN /\ search' = [search EXCEPT !.request = body,
                                 !.status = IF body.query = "" THEN 400
                                            ELSE IF r = "error" THEN 500 ELSE 200,
                                 !.results = IF body.query = "" \/ r = "error" THEN <<>>
                                             ELSE results]
     /\ UNCHANGED <<pipeline, sk, web, kn, rate>>

InitSearch ==
  /\ ServerInit({"s1"}, {"flaky"}, FALSE)
  /\ sk = SkInit /\ web = WebInit(TRUE, FALSE) /\ kn = KnInit /\ rate = RateInit
  /\ \E ts, ks \in Tables : search = SearchInit(ts, ks)

SearchNext == \E body \in SearchBodies, r \in {"ok", "error"} : Search(body, r)

SpecSearch == InitSearch /\ [][SearchNext]_vars

(***************************************************************************)
(* Properties                                                              *)
(***************************************************************************)
Range(seq) == { seq[i] : i \in 1..Len(seq) }

IsPrefix(p, q) == Len(p) <= Len(q) /\ SubSeq(q, 1, Len(p)) = p

\* the drains that hold taken lines
InFlight == { t \in {silence, interval, flush} : t.pc # "idle" }

Quiescent == InFlight = {}

\* fragments of session s that are in a persisted chunk
Persisted(s) == UNION { Range(r.lines) : r \in RowsOf(vec_transcripts, s) }

\* fragments some running drain has taken
Taken == UNION { Range(t.lines) : t \in InFlight }

Ascending(ls) == \A i, j \in 1..Len(ls) : i < j => ls[i].id < ls[j].id

RECURSIVE SpaceJoined(_, _)
\* the texts of ls, from the i-th on, each preceded by one space
SpaceJoined(ls, i) ==
  IF i > Len(ls) THEN <<>> ELSE <<" ">> \o ls[i].text \o SpaceJoined(ls, i + 1)

\* the single-space join of the fragments ls
Joined(ls) == IF ls = <<>> THEN <<>> ELSE Tail(SpaceJoined(ls, 1))

\* a step in which a timer-triggered drain ends: the silence sweep leaves its
\* try/catch, the interval sweep leaves its retry loop
SilenceDrainEnds == \E r \in AllOutcomes : SilenceResolve(r)
IntervalDrainEnds == (\E r \in AllOutcomes : IntervalResolve(r)) /\ interval'.pc # "backoff"

\* C1: at every point at which no drain is running, every fragment ingested
\* for an existing session is in a persisted chunk of the session or in its
\* live buffer: no fragment is silently discarded.
C1_NoLoss ==
  Quiescent =>
    \A s \in sessions : Range(ingested[s]) \subseteq Persisted(s) \cup Range(LiveLines(s))

\* C2: the drains that hold lines at the same time hold non-empty, pairwise
\* disjoint snapshots, and no taken line is still in a buffer: no line is taken
\* by two drains.
C2_AtMostOneDrain ==
  /\ \A t \in InFlight : t.lines # <<>>
  /\ \A t \in InFlight : \A o \in DOMAIN heap : Range(t.lines) \cap Range(heap[o].lines) = {}
  /\ (silence.pc # "idle" /\ interval.pc # "idle")
        => Range(silence.lines) \cap Range(interval.lines) = {}
  /\ (silence.pc # "idle" /\ flush.pc # "idle")
        => Range(silence.lines) \cap Range(flush.lines) = {}
  /\ (interval.pc # "idle" /\ flush.pc # "idle")
        => Range(interval.lines) \cap Range(flush.lines) = {}

\* C2 witness: two triggers have fired against the same buffer and both await
\* their embedding call
C2_Witness ==
  /\ silence.pc = "await" /\ flush.pc = "await"
  /\ silence.buf = flush.buf

\* C3: the content of every awaited embedding call is the single-space join of
\* the taken fragments, and these are in append order.
C3_OrderPreserved ==
  \A t \in InFlight : t.content = Joined(t.lines) /\ Ascending(t.lines)

\* C4: with a client that fails its first 2 calls and succeeds on the 3rd, a
\* timer-triggered drain ends with exactly one new chunk holding the content,
\* and none of the drained lines is back in the buffer.
C4_RetryThenEmbed ==
  [][ /\ (embedClient = "failTwice" /\ SilenceDrainEnds) =>
           /\ \E row \in vec_transcripts' \ vec_transcripts :
                 /\ vec_transcripts' \ vec_transcripts = {row}
                 /\ row.content = silence.content
           /\ Range(silence.lines) \cap Range(LinesIn(buffers', heap', silence.sessionId)) = {}
      /\ (embedClient = "failTwice" /\ IntervalDrainEnds) =>
           /\ \E row \in vec_transcripts' \ vec_transcripts :
                 /\ vec_transcripts' \ vec_transcripts = {row}
                 /\ row.content = interval.content
           /\ Range(interval.lines) \cap Range(LinesIn(buffers', heap', interval.sessionId)) = {}
    ]_vars

\* C5: with a client that always fails, a timer-triggered drain ends with the
\* taken lines at the front of the session's buffer, in their order, with no
\* chunk persisted, the transcript count unchanged and startedAt unchanged.
C5_RestoreOnFailure ==
  [][ /\ (embedClient = "alwaysFail" /\ SilenceDrainEnds) =>
           /\ IsPrefix(silence.lines, LinesIn(buffers', heap', silence.sessionId))
           /\ vec_transcripts' = vec_transcripts
           /\ total_transcripts' = total_transcripts
           /\ heap'[silence.buf].startedAt = heap[silence.buf].startedAt
      /\ (embedClient = "alwaysFail" /\ IntervalDrainEnds) =>
           /\ IsPrefix(interval.lines, LinesIn(buffers', heap', interval.sessionId))
           /\ vec_transcripts' = vec_transcripts
           /\ total_transcripts' = total_transcripts
           /\ heap'[interval.buf].startedAt = heap[interval.buf].startedAt
    ]_vars

\* C6: a manual drain whose one embedding attempt fails answers with an error,
\* makes no further attempt, persists no chunk, leaves the transcript count, and
\* leaves the taken lines at the front of the session's buffer.
C6_ManualFailure ==
  [][ FlushResolve("error") =>
        /\ FlushResolveResponse(flush, "error").status = 500
        /\ flush'.pc = "idle"
        /\ embedCalls' = embedCalls
        /\ vec_transcripts' = vec_transcripts
        /\ total_transcripts' = total_transcripts
        /\ IsPrefix(flush.lines, LinesIn(buffers', heap', flush.sessionId))
    ]_vars

\* C7: without deletions, the transcript count of every session equals the
\* number of its persisted chunks.
C7_CountConsistency ==
  \A s \in sessions : total_transcripts[s] = Cardinality(RowsOf(vec_transcripts, s))

\* C8: after a successful DELETE /api/embeddings/:rowid the transcript count of
\* the session that owned the deleted chunk equals the number of its persisted
\* chunks.
C8_PointDeletion ==
  [][ \A n \in 1..MaxEmbedCalls, s \in SessionIds \cup {Undefined} :
        DeleteEmbedding(n, s) =>
          \A row \in vec_transcripts \ vec_transcripts' :
            row.session_id \in sessions =>
              total_transcripts'[row.session_id]
                = Cardinality(RowsOf(vec_transcripts', row.session_id))
    ]_vars

\* C9: under any interleaving of cleanup with ingests and drains, every
\* fragment ingested for an existing session is in a persisted chunk of the
\* session, in the session's buffer in the map, or held by a running drain that
\* has taken it: none is unreachable without having been persisted.
C9_NoEvictionOfPending ==
  \A s \in sessions :
    Range(ingested[s]) \subseteq Persisted(s) \cup Range(LiveLines(s)) \cup Taken

\* C10: a manual flush takes all buffered fragments, and when its embedding and
\* store calls succeed it answers flushed: true with contentLength the length of
\* their single-space join and persists exactly one new chunk whose content is
\* that join; for the one fragment "test" the length is 4.
C10_FlushSuccess ==
  [][ /\ \A s \in SessionIds :
           (FlushStart(s) /\ FlushTakes(s)) =>
              /\ flush'.pc = "await"
              /\ flush'.lines = LiveLines(s)
              /\ LinesIn(buffers', heap', s) = <<>>
      /\ FlushResolve("ok") =>
           LET res == FlushResolveResponse(flush, "ok") IN
           /\ res.status = 200 /\ res.flushed
           /\ res.contentLength = Len(Joined(flush.lines))
           /\ (Len(flush.lines) = 1 /\ flush.lines[1].text = <<"t","e","s","t">>)
                 => res.contentLength = 4
           /\ \E row \in vec_transcripts' \ vec_transcripts :
                 /\ vec_transcripts' \ vec_transcripts = {row}
                 /\ row.session_id = flush.sessionId
                 /\ row.content = Joined(flush.lines)
    ]_vars

\* C10 witness: ingest(S, "en", "test") and a manual flush of S have left
\* exactly one chunk, with content "test"
C10_Witness ==
  \E row \in vec_transcripts :
    /\ vec_transcripts = {row}
    /\ row.by = "flush"
    /\ row.content = <<"t","e","s","t">>
    /\ Len(row.lines) = 1
    /\ Len(ingested[row.session_id]) = 1

\* C11: a manual flush of an existing session whose buffer is empty or absent
\* answers flushed: false, and a flush or sweep that changes anything (the
\* buffers, the running handlers, the number of embedding calls, the chunks or
\* the counts) has found lines to take: draining empty buffers is a no-op,
\* however often it is repeated.
C11_EmptyDrainNoOp ==
  /\ [](\A s \in sessions :
          LiveLines(s) = <<>> =>
            ~FlushTakes(s) /\ FlushStartResponse(s) = [status |-> 200, flushed |-> FALSE])
  /\ [][ /\ \A s \in sessions : FlushStart(s) => LiveLines(s) # <<>>
         /\ (SilenceStart \/ IntervalStart) => \E k \in Keys : LiveLines(k) # <<>>
       ]_vars

\* C11 witness: a drain has emptied the buffer of s1 and persisted its chunk, and
\* no handler is running, so every further flush of s1 is an empty drain
C11_Witness ==
  /\ "s1" \in sessions /\ "s1" \in Keys /\ LiveLines("s1") = <<>>
  /\ Quiescent
  /\ RowsOf(vec_transcripts, "s1") # {}

\* C12: once 16 seconds have passed since the last ingest of a session, with a
\* 15-second silence threshold and a succeeding embedding client, the session's
\* buffer is empty and its fragments are in a persisted chunk whose content is
\* their single-space join ("Hello world" for "Hello " then "world").
C12_SilenceFlush ==
  \A s \in sessions :
    (s \in Keys /\ now - heap[BufOf(s)].lastAt >= 16000) =>
       /\ LiveLines(s) = <<>>
       /\ \E row \in RowsOf(vec_transcripts, s) :
            /\ row.content = Joined(row.lines)
            /\ ingested[s][Len(ingested[s])] \in Range(row.lines)
            /\ (Len(row.lines) = 2 /\ row.lines[1].text = Trim(Hello)
                   /\ row.lines[2].text = Trim(World))
                 => row.content = <<"H","e","l","l","o"," ","w","o","r","l","d">>

\* C13: with a succeeding embedding client and the interval sweep firing again
\* and again, every ingested fragment is eventually contained in a persisted
\* chunk, whether or not its session ever falls silent.
C13_IntervalFallback ==
  \A i \in 1..MaxIngest :
    (\E s \in SessionIds : \E l \in Range(ingested[s]) : l.id = i)
      ~> (\E row \in vec_transcripts : \E l \in Range(row.lines) : l.id = i)

\* C13 witness: the interval sweep has persisted a chunk of a session whose last
\* fragment arrived at this very instant, so that it was never silent
C13_Witness ==
  \E row \in vec_transcripts :
    /\ row.by = "interval"
    /\ row.ended_at = now
    /\ now - row.ended_at < SILENCE_THRESHOLD
    /\ ingested[row.session_id] # <<>>
    /\ Range(ingested[row.session_id]) \subseteq Persisted(row.session_id)

\* C14: /ingest answers a validation error (400) when the sessionId is missing
\* or the text is empty after trimming, and not-found (404) when the session
\* does not exist; a request that creates a buffer or changes one (its lines,
\* lastAt, startedAt or language) has a sessionId, a text that is not empty
\* after trimming and an existing session.
C14_IngestValidation ==
  /\ [](\A b \in IngestInputs :
          /\ (b.sessionId = Undefined \/ Trim(b.text) = <<>>)
                => IngestStatus(b.sessionId, b.text) = 400
          /\ (b.sessionId # Undefined /\ Trim(b.text) # <<>> /\ b.sessionId \notin sessions)
                => IngestStatus(b.sessionId, b.text) = 404)
  /\ [][ \A b \in IngestInputs :
           Ingest(b.sessionId, b.language, b.text) =>
             /\ b.sessionId # Undefined
             /\ Trim(b.text) # <<>>
             /\ b.sessionId \in sessions
       ]_vars

\* C14 witness: session s1 has a buffer with a line, which a failing /ingest
\* (no sessionId, blank text, unknown session) has to leave as it is
C14_Witness ==
  /\ "s1" \in Keys /\ LiveLines("s1") # <<>>
  /\ \E b \in IngestInputs : IngestStatus(b.sessionId, b.text) = 400
  /\ \E b \in IngestInputs : IngestStatus(b.sessionId, b.text) = 404

\* C15: an accepted /ingest whose fragment is the first line since the last
\* drain (the session's buffer holds no line and no drain holds lines of the
\* session) sets startedAt to now, and any other accepted /ingest leaves
\* startedAt as it is.
C15_StartedAtFirstFragment ==
  [][ \A b \in IngestInputs :
        (Ingest(b.sessionId, b.language, b.text) /\ IngestStatus(b.sessionId, b.text) = 200) =>
          LET s == b.sessionId
              started == heap'[buffers'[CHOOSE i \in 1..Len(buffers') : buffers'[i].key = s].obj].startedAt
          IN /\ (LiveLines(s) = <<>> /\ \A t \in InFlight : t.sessionId # s)
                  => started = now
             /\ LiveLines(s) # <<>> => started = heap[BufOf(s)].startedAt
    ]_vars

\* C16: for a session id without a session (never created, or deleted) no
\* persisted chunk exists and no buffer is in the Map, in every state.
C16_DeletionCascades ==
  \A s \in SessionIds \ sessions :
    /\ RowsOf(vec_transcripts, s) = {}
    /\ s \notin Keys

\* C17: the last-chunk request answers with source "buffer" and the
\* single-space join of the buffered lines when the session's buffer holds
\* lines, otherwise with a persisted chunk of the session than which none ended
\* later (source "db"), otherwise with source "none" and empty content.
C17_LastChunk ==
  \A id \in SessionIds : \A res \in LastChunkResponses(id) :
    IF LiveLines(id) # <<>>
    THEN res.source = "buffer" /\ res.content = Joined(LiveLines(id))
    ELSE IF RowsOf(vec_transcripts, id) # {}
    THEN /\ res.source = "db"
         /\ \E r \in RowsOf(vec_transcripts, id) :
              /\ res.content = r.content
              /\ \A q \in RowsOf(vec_transcripts, id) : q.ended_at <= r.ended_at
    ELSE res.source = "none" /\ res.content = <<>>

\* C17 witness: session s1 has a persisted chunk and newer lines in its buffer,
\* so that the answer comes from the buffer although the store has a chunk
C17_Witness ==
  /\ RowsOf(vec_transcripts, "s1") # {}
  /\ LiveLines("s1") # <<>>
  /\ \E res \in LastChunkResponses("s1") : res.source = "buffer"

\* the state of the buffer of session s in the Map bufs over the heap h
BufState(bufs, h, s) == IF LinesIn(bufs, h, s) = <<>> THEN "EMPTY" ELSE "ACCUMULATING"

\* a step in which a drain of session s ends in failure
FailedDrainEnds(s) ==
  \/ \E r \in AllOutcomes : Threw(r) /\ SilenceResolve(r) /\ silence.sessionId = s
  \/ \E r \in AllOutcomes :
       Threw(r) /\ IntervalResolve(r) /\ interval.sessionId = s /\ interval'.pc # "backoff"
  \/ \E r \in AllOutcomes : Threw(r) /\ FlushResolve(r) /\ flush.sessionId = s

\* the lines the drain of session s that ends in this step had taken
EndingDrainLines(s) ==
  IF silence.pc = "await" /\ silence' # silence /\ silence.sessionId = s THEN silence.lines
  ELSE IF interval.pc = "await" /\ interval' # interval /\ interval.sessionId = s
  THEN interval.lines
  ELSE flush.lines

\* C18: the buffer of a session is EMPTY (no lines) or ACCUMULATING (lines, and
\* a startedAt not after now); it becomes ACCUMULATING only by an accepted
\* ingest or by the restore of a failed drain, it becomes EMPTY only by a drain
\* taking all its lines, an accepted ingest leaves it ACCUMULATING, a failed
\* drain leaves it ACCUMULATING with the taken lines restored at its front, and
\* the idle cleanup removes it only when it is EMPTY.
C18_BufferStateMachine ==
  [][ \A s \in sessions :
        LET before == BufState(buffers, heap, s)
            after == BufState(buffers', heap', s)
        IN /\ before = "ACCUMULATING" => heap[BufOf(s)].startedAt <= now
           /\ (before = "EMPTY" /\ after = "ACCUMULATING") =>
                 ingested'[s] # ingested[s] \/ FailedDrainEnds(s)
           /\ (before = "ACCUMULATING" /\ after = "EMPTY") =>
                 \E t \in {silence', interval', flush'} :
                    /\ t.pc = "await" /\ t \notin {silence, interval, flush}
                    /\ t.sessionId = s /\ t.lines = LiveLines(s)
           /\ ingested'[s] # ingested[s] => after = "ACCUMULATING"
           /\ FailedDrainEnds(s) =>
                 /\ after = "ACCUMULATING"
                 /\ IsPrefix(EndingDrainLines(s), LinesIn(buffers', heap', s))
           /\ (Cleanup /\ s \in Keys /\ s \notin Keys') => before = "EMPTY"
    ]_vars

\* C19: a drain whose insert into the store throws (as it does for a vector
\* whose length is not the dimension of the store) is not retried: the drain
\* does not go into a backoff for another attempt, and makes no further
\* embedding call for the content.
C19_SchemaErrorNotRetried ==
  [][ IntervalResolve("insertThrows") =>
        /\ interval'.pc # "backoff"
        /\ ~(interval'.pc = "await" /\ interval'.lines = interval.lines)
    ]_vars

\* C20: the persisted chunks of a session hold its fragments in the order of
\* their appending: a chunk with a fragment ingested earlier is never persisted
\* after a chunk with a fragment ingested later.
C20_EmbeddedInAppendOrder ==
  \A r1, r2 \in vec_transcripts :
    (r1.session_id = r2.session_id
       /\ \E a \in Range(r1.lines), b \in Range(r2.lines) : a.id < b.id)
      => r1.rowid <= r2.rowid

\* the buffer whose lines the silence sweep takes in this step: the callback
\* starts, or resumes after an await, and splices the lines of the buffer it
\* then awaits the embedding of
SilenceTakes(o) ==
  /\ SilenceStart \/ \E r \in AllOutcomes : SilenceResolve(r)
  /\ silence'.pc = "await"
  /\ silence'.buf = o

\* C27 as stated: the silence sweep takes the lines of a buffer only if the
\* buffer is non-empty and, at the moment of the take, now - lastAt exceeds the
\* 15-second silence threshold.
C27_SilenceThresholdExceeded ==
  [][ \A o \in DOMAIN heap :
        SilenceTakes(o) =>
          /\ heap[o].lines # <<>>
          /\ now - heap'[o].lastAt > SILENCE_THRESHOLD
    ]_vars

\* C27 amended: the silence sweep takes the lines of a buffer only if the
\* buffer is non-empty and, at the moment of the take, now - lastAt is at least
\* the 15-second silence threshold; a buffer that received a fragment less than
\* 15 seconds ago is not drained by it, also when the sweep reaches the buffer
\* after awaiting another session's embedding call.
C27_SilenceThresholdReached ==
  [][ \A o \in DOMAIN heap :
        SilenceTakes(o) =>
          /\ heap[o].lines # <<>>
          /\ silence'.lines = heap[o].lines
          /\ now - heap'[o].lastAt >= SILENCE_THRESHOLD
    ]_vars

\* C27 witness: the sweep has embedded the first session's buffer, whose
\* window start was reset after the sweep began, and has then taken the lines of
\* the second session's buffer
C27_Witness ==
  /\ silence.pc = "await"
  /\ silence.pos = 2
  /\ heap[buffers[1].obj].startedAt > silence.now
  /\ \E r \in vec_transcripts : r.by = "silence" /\ r.session_id = buffers[1].key

\* C28: at-most-once: no ingested fragment is contained in two persisted
\* chunks, whatever the interleaving of ingests, drains, failures and restores.
C28_AtMostOnce ==
  \A r1, r2 \in vec_transcripts :
    r1 # r2 => Range(r1.lines) \cap Range(r2.lines) = {}

\* the persisted chunks made of exactly the fragments ls
ChunksOf(rows, ls) == { r \in rows : r.lines = ls }

\* C29: an interval-triggered drain of one buffer makes at most 3 embedding
\* attempts; after the first failure it waits 2 seconds and after the second 4
\* seconds before the next attempt, after the third it does not wait; and it
\* ends with either exactly one chunk of the taken lines persisted and the lines
\* not restored, or no chunk persisted and the lines restored.
C29_RetriesCapped ==
  /\ [](interval.pc # "idle" => interval.retryCount + 1 <= maxRetries)
  /\ [][ /\ \A r \in AllOutcomes :
             (IntervalResolve(r) /\ Threw(r)) =>
                IF interval.retryCount = 0
                  THEN interval'.pc = "backoff" /\ interval'.until = now + 2000
                ELSE IF interval.retryCount = 1
                  THEN interval'.pc = "backoff" /\ interval'.until = now + 4000
                ELSE interval'.pc # "backoff"
         /\ IntervalRetry => now >= interval.until
         /\ IntervalDrainEnds =>
              LET made == Cardinality(ChunksOf(vec_transcripts', interval.lines))
                  restored == IsPrefix(interval.lines, heap'[interval.buf].lines)
              IN \/ made = 1 /\ ~restored
                 \/ made = 0 /\ restored
    ]_vars

\* the entries of the Map after position pos that a sweep of the given kind,
\* begun at swNow, has still to drain: non-empty and, for the silence sweep,
\* silent for the threshold
StillToDrain(kind, swNow, pos) ==
  { i \in (pos + 1)..Len(buffers) :
      /\ heap[buffers[i].obj].lines # <<>>
      /\ kind = "silence" => swNow - heap[buffers[i].obj].lastAt >= SILENCE_THRESHOLD }

\* after the drain t of a sweep has failed, the callback t2 goes on with the
\* first entry the sweep has still to drain, or ends when there is none
SweepGoesOn(kind, t, t2) ==
  LET rest == StillToDrain(kind, t.now, t.pos) IN
  IF rest = {} THEN t2.pc = "idle"
  ELSE /\ t2.pc = "await"
       /\ \A i \in rest : t2.pos <= i
       /\ t2.pos \in rest
       /\ t2.lines = heap[buffers[t2.pos].obj].lines

\* C30: when the drain of a silence or interval sweep fails for good, in the
\* embedding call or in a store write, the taken lines are back at the front of
\* the session's buffer and the sweep goes on with the next session that has a
\* buffer to drain: the failure does not abort the sweep.
C30_FailureDoesNotAbortSweep ==
  [][ \A r \in AllOutcomes :
        /\ (Threw(r) /\ SilenceResolve(r)) =>
              /\ IsPrefix(silence.lines, LinesIn(buffers', heap', silence.sessionId))
              /\ SweepGoesOn("silence", silence, silence')
        /\ (Threw(r) /\ IntervalResolve(r) /\ interval'.pc # "backoff") =>
              /\ IsPrefix(interval.lines, LinesIn(buffers', heap', interval.sessionId))
              /\ SweepGoesOn("interval", interval, interval')
    ]_vars

\* the last call of the Secretary by Sidekick was pause
HeldPaused == web.calls # <<>> /\ web.calls[Len(web.calls)] = "pause"

\* a step in which a PTT press starts a recording
PressStarts == Press /\ sk.isConnected /\ ~sk.isRecording

\* C21: a PTT press with auto-pause on leaves the Secretary paused, and every
\* Secretary.pause Sidekick issues is eventually followed by a Secretary.resume.
C21_PauseThenResume ==
  /\ [][ (PressStarts /\ web.sk_autopause) => HeldPaused' ]_vars
  /\ (HeldPaused ~> ~HeldPaused)

\* the user utterance and the assistant reply of the exchange that a
\* response.done with the given output completes
ExchangeUser == sk.pendingUserUtterance
ExchangeReply(output) ==
  IF sk.accumulatedAssistantText = Empty THEN output ELSE sk.accumulatedAssistantText

\* every posted body holds both parts, no two bodies are of the same exchange,
\* nothing is posted while the setting is off, and only a response.done posts
PostsWellFormed ==
  /\ \A i \in 1..Len(web.posts) :
        web.posts[i].text.You # Empty /\ web.posts[i].text.Sidekick # Empty
  /\ \A i, j \in 1..Len(web.posts) :
        i # j => web.posts[i].text.You # web.posts[j].text.You
  /\ ~web.sk_record_conversations => web.posts = <<>>

OnlyDonePosts ==
  web'.posts # web.posts => \E output \in {Empty, Reply} : ResponseDone(output)

HandlersFinished == web.starting = {} /\ web.stopping = {}

\* pc.getSenders().length: connectSidekick adds one track to a new peer
\* connection, and replaceTrack adds no sender
AudioSenders == IF sk.pc = Open THEN 1 ELSE 0

\* the microphone tracks that are live
LiveMicrophones == web.live \ {sk.idleTrack}

\* C24: while connected, once PTT is released and every PTT handler has
\* finished, the peer connection has exactly one audio sender, the sender
\* carries the idle track, and no microphone stream is live.
C24_BackToIdleTrack ==
  (sk.pc = Open /\ ~sk.isRecording /\ HandlersFinished) =>
     /\ AudioSenders = 1
     /\ web.senderTrack = sk.idleTrack
     /\ LiveMicrophones = {}

RECURSIVE Count(_, _)
\* the number of calls c in the sequence calls
Count(calls, c) ==
  IF calls = <<>> THEN 0
  ELSE (IF Head(calls) = c THEN 1 ELSE 0) + Count(Tail(calls), c)

\* C25: the calls of Secretary.pause and Secretary.resume by Sidekick strictly
\* alternate, starting with pause: the odd calls are pauses and the even calls
\* resumes, Sidekick holds the Secretary paused exactly after a pause, and after
\* every completed response the pause count equals the resume count.
C25_PauseResumeAlternate ==
  /\ [](\A i \in 1..Len(web.calls) :
          web.calls[i] = IF i % 2 = 1 THEN "pause" ELSE "resume")
  /\ [](sk.secretaryPaused <=> HeldPaused)
  /\ [][ (\E output \in {Empty, Reply} : ResponseDone(output)) =>
            Count(web'.calls, "pause") = Count(web'.calls, "resume") ]_vars

\* C25 witness: a typed exchange has paused and resumed the Secretary, a PTT
\* press has paused it again and a disconnect has resumed it
C25_Witness ==
  /\ web.calls = <<"pause", "resume", "pause", "resume">>
  /\ web.presses = 1
  /\ ~sk.isConnected

\* C26: once disconnect() has run and every pending handler has finished,
\* there is no peer connection and no data channel, isConnected is false, no
\* microphone or idle track is live, and Sidekick does not hold the Secretary
\* paused.
C26_CleanAfterDisconnect ==
  (web.connects > 0 /\ sk.pc = None /\ HandlersFinished) =>
     /\ sk.dc = None
     /\ ~sk.isConnected
     /\ web.live = {}
     /\ sk.activeMicStream = Null /\ sk.idleTrack = Null
     /\ ~sk.secretaryPaused /\ ~HeldPaused

\* C23: once DELETE of a knowledge source has returned, no knowledge chunk
\* with its source id exists, also when the source was still being processed
\* at the deletion.
C23_DeletedSourceHasNoChunks ==
  \A id \in kn.deleted : \A c \in kn.chunks : c.source_id # id

\* an /ingest request without a language that is accepted for a session with a buffer
IngestsWithoutLanguage(sessionId) ==
  /\ sessionId \in Keys
  /\ \E i \in IngestInputs :
       /\ i.sessionId = sessionId /\ i.language = Undefined
       /\ IngestStatus(sessionId, i.text) = 200
       /\ Ingest(sessionId, Undefined, i.text)

\* C31: an accepted /ingest request that supplies no language leaves the
\* language of the existing buffer of its session unchanged.
C31_LanguageKeptWhenNotProvided ==
  [][\A s \in SessionIds :
       IngestsWithoutLanguage(s) => heap'[BufOf(s)].language = heap[BufOf(s)].language]_vars

\* a step in which Sidekick calls Secretary.resume
CallsResume ==
  /\ Len(web'.calls) = Len(web.calls) + 1
  /\ web'.calls[Len(web'.calls)] = "resume"

\* C32: with auto-pause on, Sidekick calls Secretary.resume only when the
\* connection is disconnected or on a response.done, and on a response.done
\* only when the user is not recording a new utterance.
C32_PausedThroughExchange ==
  [][(web.sk_autopause /\ CallsResume) =>
        \/ sk'.pc = None
        \/ web'.responses < web.responses /\ ~sk.isRecording]_vars

\* C33: at most one peer connection exists at any time, also when a connect
\* request is made while a connection is being established, and once
\* disconnect has run and no connect call is pending no peer connection is
\* left open.
C33_SingleConnection ==
  /\ Cardinality(web.pcs) <= 1
  /\ (sk.pc = None /\ web.connecting = {}) => web.pcs = {}

\* C34: after disconnect() and after an error event the pending user
\* utterance and the accumulated assistant text are both empty.
C34_StagedStateCleared ==
  [][(Disconnect \/ ErrorEvent) =>
        /\ sk'.pendingUserUtterance = Empty
        /\ sk'.accumulatedAssistantText = Empty]_vars

\* C35: in a server started with EMBED_STRATEGY=never no timer-triggered
\* drain takes lines or awaits the embedding client, and every persisted
\* chunk was embedded by a manual flush.
C35_NoBackgroundEmbedding ==
  /\ silence = Idle /\ interval = Idle
  /\ \A r \in vec_transcripts : r.by = "flush"

\* the request was answered with results, asked for both sources and gave
\* neither k_transcripts nor k_knowledge
SearchedBoth ==
  /\ search.status = 200
  /\ Field(search.request, "include", "both") = "both"
  /\ DOMAIN search.request \cap {"k_transcripts", "k_knowledge"} = {}

\* C36: a search over both sources without k_transcripts and k_knowledge
\* returns at most limit results (limit clamped to 1..100), ordered by
\* ascending distance.
C36_SearchLimitAndOrder ==
  SearchedBoth =>
    /\ Len(search.results) <= ClampLimit(Field(search.request, "limit", 5))
    /\ \A i \in 1..Len(search.results) - 1 :
         search.results[i].distance <= search.results[i + 1].distance

\* fragments of the session of the running flush that were ingested no later
\* than the newest line the flush took
IngestedBeforeFlush ==
  { l \in Range(ingested[flush.sessionId]) :
      \E m \in Range(flush.lines) : l.id <= m.id }

\* C37: when a manual flush of an existing session answers without error,
\* every fragment ingested for the session before the call is in a persisted
\* chunk: in a state in which the flush answers flushed: false at once, and
\* after a flush that answers flushed: true.
C37_FlushLeavesNothingPending ==
  /\ [](\A s \in sessions :
          (flush.pc = "idle" /\ ~FlushTakes(s)) => Range(ingested[s]) \subseteq Persisted(s))
  /\ [][FlushResolve("ok") =>
          \A l \in IngestedBeforeFlush :
             \E r \in RowsOf(vec_transcripts', flush.sessionId) : l \in Range(r.lines)]_vars

\* C38: the window of every persisted transcript chunk starts no later than
\* it ends.
C38_WindowWellFormed ==
  \A r \in vec_transcripts : r.started_at <= r.ended_at

\* C39: per address at most 100 requests are admitted in a window of 60
\* seconds that starts with its first admitted request; a request inside
\* the window after the 100th is rejected with 429 and leaves the entries
\* unchanged; the first request after the window has expired is admitted and
\* restarts the count at 1; the cleanup deletes only expired entries.
C39_RateLimit ==
  /\ [](\A ip \in Ips : rate.windows[ip].n <= RATE_LIMIT_MAX_REQUESTS)
  /\ [][\A ip \in Ips :
          LET limit == rate.map[ip] IN
          /\ (rateLimit(ip) /\ limit.count >= RATE_LIMIT_MAX_REQUESTS
                 /\ now <= limit.resetTime) =>
                rate'.status = 429 /\ rate'.map = rate.map
          /\ (rateLimit(ip) /\ limit.count > 0 /\ now > limit.resetTime) =>
                /\ rate'.status = 200
                /\ rate'.map[ip] = [count |-> 1, resetTime |-> now + RATE_LIMIT_WINDOW]
          /\ (rateLimit(ip) /\ rate'.status = 429) => rate'.map = rate.map
          /\ (RateCleanup /\ rate'.map[ip] # limit) =>
                rate'.map[ip].count = 0 /\ now > limit.resetTime]_vars

\* C39 witness: the 101st request of address a, made at the last instant of
\* its window, has been rejected, while address b has been admitted once in
\* the window it opened at that instant
C39_Witness ==
  /\ rate.ip = "a" /\ rate.status = 429
  /\ rate.map["a"].count = RATE_LIMIT_MAX_REQUESTS /\ now = rate.map["a"].resetTime
  /\ rate.map["b"].count = 1 /\ rate.map["b"].resetTime = now + RATE_LIMIT_WINDOW
  /\ rate.windows["b"] = [start |-> now, n |-> 1]
====
